---- MODULE Spec2Model ----
(***************************************************************************)
(* The process-IPC bridge of client/src-tauri/src/lib.rs: one long-lived   *)
(* backend process behind Arc<Mutex<BackendProcess>>, the synchronous      *)
(* command backend_request, the streaming command backend_query_stream     *)
(* (blocking reader + receiver task + bounded mpsc channel) and the        *)
(* CloseRequested handler that kills the child.                            *)
(***************************************************************************)
EXTENDS Integers, Sequences, FiniteSets, TLC

\* ---------------------------------------------------------------- bounds
\* number of front-end invocations (each call is invoked once)
NumCalls == 2
\* number of lines the backend writes to its stdout in one run
MaxLines == 3
\* capacity of the mpsc channel; the code uses 64, scaled down here so that
\* a full channel is reachable within MaxLines
ChannelCapacity == 2

Calls == 1..NumCalls

\* ---------------------------------------------------------------- Option
None == <<>>
Some(x) == <<x>>
IsSome(o) == o /= None
Unwrap(o) == o[1]

\* ---------------------------------------------------------------- lines
\* A line of the backend's stdout.  form: "blank" is a line of whitespace
\* only, "garbage" a line that is not JSON, "badutf8" a line whose bytes are
\* not UTF-8, "json" a JSON object with the fields type and message (None
\* when the key is missing or its value is not a string).  n numbers the
\* lines in the order the backend wrote them, req is the request the backend
\* wrote the line for (0: none).
MkLine(form, type, message, n, req) ==
  [form |-> form, type |-> type, message |-> message, n |-> n, req |-> req]

\* the String a zero-byte read_line leaves in `line`
EmptyString == MkLine("empty", None, None, 0, 0)

\* what the backend can put on a line
LineShapes ==
  { <<"blank", None, None>>,
    <<"garbage", None, None>>,
    <<"badutf8", None, None>>,
    <<"json", Some("progress"), None>>,
    <<"json", Some("result"), None>>,
    <<"json", Some("error"), Some("boom")>>,
    <<"json", Some("error"), None>>,
    <<"json", Some("status"), None>> }

\* str::trim: a whitespace-only line and the empty string both trim to ""
Trim(line) ==
  IF line.form \in {"empty", "blank"} THEN EmptyString ELSE line

\* str::is_empty
IsEmpty(s) == s.form = "empty"

\* serde_json::from_str::<Value>: Ok(value) or Err(reason)
FromStr(s) ==
  CASE s.form = "json"  -> [ok |-> TRUE, v |-> [type |-> s.type, message |-> s.message, n |-> s.n, req |-> s.req]]
    [] s.form = "empty" -> [ok |-> FALSE, v |-> "EOF while parsing a value"]
    [] OTHER            -> [ok |-> FALSE, v |-> "expected value"]

\* v.get("type").and_then(|t| t.as_str())
GetType(v) == v.type
\* v.get("message").and_then(|m| m.as_str())
GetMessage(v) == v.message

\* ---------------------------------------------------------------- results
Ok(v) == [ok |-> TRUE, v |-> v]
Err(m) == [ok |-> FALSE, v |-> m]
Pending == [ok |-> FALSE, v |-> "<pending>"]

UnknownError == "unknown error"
NoResultMsg == "backend stream did not return result"
\* format!("backend invalid JSON: {}", e)
InvalidJson(e) ==
  IF e = "EOF while parsing a value"
  THEN "backend invalid JSON: EOF while parsing a value"
  ELSE "backend invalid JSON: expected value"
BrokenPipe == "io: broken pipe"
InvalidUtf8 == "io: stream did not contain valid UTF-8"
ChannelClosed == "channel closed"

VARIABLES
  pc,          \* position of each call
  kind,        \* "request" (backend_request) or "stream" (backend_query_stream)
  holder,      \* owner of the Mutex<BackendProcess>: 0 free, a call, or Closer
  child,       \* "running" or "exited"
  stdinBuf,    \* request lines written to the backend's stdin, not yet taken
  stdoutBuf,   \* lines the backend wrote to its stdout, not yet read
  written,     \* number of lines the backend has written
  wcur,        \* the request the backend is answering (None: idle)
  line,        \* the reader's local `line`
  chan,        \* the mpsc channel of each streaming call
  rpc,         \* the receiver task of each streaming call
  result_cell,
  error_cell,
  outcome,     \* what the command returned to the front-end
  emitted,     \* "backend://progress" events emitted for each call
  nread,       \* number of lines each call has read from stdout (history)
  reqsRead,    \* the requests the lines a call has read were written for (history)
  progRead,    \* progress envelopes a call read before a terminal one (history)
  termRead,    \* first terminal envelope a call read (history)
  sawEof,      \* the call's read_line returned 0 bytes (history)
  closing      \* the CloseRequested handler: "no", "waiting", "done"

vars == <<pc, kind, holder, child, stdinBuf, stdoutBuf, written, wcur, line, chan,
          rpc, result_cell, error_cell, outcome, emitted, nread, reqsRead, progRead,
          termRead, sawEof, closing>>

workerVars == <<child, stdinBuf, stdoutBuf, written, wcur>>
streamVars == <<chan, rpc, result_cell, error_cell, emitted>>
history == <<nread, reqsRead, progRead, termRead>>

Closer == NumCalls + 1

Init ==
  /\ pc = [c \in Calls |-> "idle"]
  /\ kind = [c \in Calls |-> "none"]
  /\ holder = 0
  /\ child = "running"
  /\ stdinBuf = <<>>
  /\ stdoutBuf = <<>>
  /\ written = 0
  /\ wcur = None
  /\ line = [c \in Calls |-> EmptyString]
  /\ chan = [c \in Calls |-> <<>>]
  /\ rpc = [c \in Calls |-> "none"]
  /\ result_cell = [c \in Calls |-> None]
  /\ error_cell = [c \in Calls |-> None]
  /\ outcome = [c \in Calls |-> Pending]
  /\ emitted = [c \in Calls |-> <<>>]
  /\ nread = [c \in Calls |-> 0]
  /\ reqsRead = [c \in Calls |-> {}]
  /\ progRead = [c \in Calls |-> <<>>]
  /\ termRead = [c \in Calls |-> None]
  /\ sawEof = [c \in Calls |-> FALSE]
  /\ closing = "no"

\* ---------------------------------------------------------------- mutex
\* a lock that never waits
LockNeverWaits(c) == TRUE

\* Mutex::lock blocks until the mutex is free
LockFree(c) == holder = 0

\* a guard that outlives the closure
UnlockNever(c) == holder' = holder

\* the guard is dropped when the spawn_blocking closure ends
Unlock(c) == holder' = IF holder = c THEN 0 ELSE holder

\* ---------------------------------------------------------------- commands
\* the front-end invokes a command; backend_query_stream creates its channel
\* and cells and spawns the receiver task before the blocking task
Invoke(c, k) ==
  /\ pc[c] = "idle"
  /\ kind' = [kind EXCEPT ![c] = k]
  /\ rpc' = [rpc EXCEPT ![c] = IF k = "stream" THEN "recv" ELSE "none"]
  /\ pc' = [pc EXCEPT ![c] = "lock"]
  /\ UNCHANGED <<holder, workerVars, line, chan, result_cell, error_cell,
                 outcome, emitted, history, sawEof, closing>>

\* state.lock().  The commands run the same code, so the calls are numbered
\* in the order in which they take the mutex; they are invoked in any order.
Lock(c) ==
  /\ pc[c] = "lock"
  /\ \A b \in 1..(c-1) : pc[b] \notin {"idle", "lock"}
  /\ LockFree(c)
  /\ holder' = c
  /\ pc' = [pc EXCEPT ![c] = "write"]
  /\ UNCHANGED <<kind, workerVars, line, streamVars, outcome, history, sawEof, closing>>

\* a write whose error is ignored
StdinAlwaysOpen == TRUE

\* the child's end of the stdin pipe is open while the child runs
StdinOpen == child = "running"

\* writeln!(stdin, "{}", request) and stdin.flush(): a pipe whose reader has
\* exited fails the write, and `?` ends the closure and the command
WriteRequest(c) ==
  /\ pc[c] = "write"
  /\ IF StdinOpen
     THEN /\ stdinBuf' = Append(stdinBuf, [id |-> c, stream |-> kind[c] = "stream"])
          /\ pc' = [pc EXCEPT ![c] = "read"]
          /\ UNCHANGED <<holder, outcome>>
     ELSE /\ outcome' = [outcome EXCEPT ![c] = Err(BrokenPipe)]
          /\ pc' = [pc EXCEPT ![c] = "done"]
          /\ Unlock(c)
          /\ UNCHANGED stdinBuf
  /\ UNCHANGED <<kind, child, stdoutBuf, written, wcur, line, streamVars,
                 history, sawEof, closing>>

\* the history of what call c has read, after it read line l
Logged(c, l) ==
  /\ nread' = [nread EXCEPT ![c] = @ + 1]
  /\ reqsRead' = [reqsRead EXCEPT ![c] = @ \cup {l.req}]
  /\ progRead' = [progRead EXCEPT ![c] =
        IF termRead[c] = None /\ l.form = "json" /\ l.type = Some("progress")
        THEN Append(@, [type |-> l.type, message |-> l.message, n |-> l.n, req |-> l.req])
        ELSE @]
  /\ termRead' = [termRead EXCEPT ![c] =
        IF termRead[c] = None /\ l.form = "json" /\ l.type \in {Some("result"), Some("error")}
        THEN Some([type |-> l.type, message |-> l.message, n |-> l.n, req |-> l.req])
        ELSE @]

\* stdout.read_line(&mut line): blocks until a line or end of stream
CanRead == stdoutBuf /= <<>> \/ child = "exited"

\* backend_request: the single read_line; the closure then ends
ReadResponse(c) ==
  /\ pc[c] = "read"
  /\ kind[c] = "request"
  /\ CanRead
  /\ Unlock(c)
  /\ IF stdoutBuf = <<>>
     THEN /\ line' = [line EXCEPT ![c] = EmptyString]
          /\ sawEof' = [sawEof EXCEPT ![c] = TRUE]
          /\ pc' = [pc EXCEPT ![c] = "decode"]
          /\ UNCHANGED <<stdoutBuf, history, outcome>>
     ELSE /\ stdoutBuf' = Tail(stdoutBuf)
          /\ Logged(c, Head(stdoutBuf))
          /\ IF Head(stdoutBuf).form = "badutf8"
             THEN /\ outcome' = [outcome EXCEPT ![c] = Err(InvalidUtf8)]
                  /\ pc' = [pc EXCEPT ![c] = "done"]
                  /\ UNCHANGED line
             ELSE /\ line' = [line EXCEPT ![c] = Head(stdoutBuf)]
                  /\ pc' = [pc EXCEPT ![c] = "decode"]
                  /\ UNCHANGED outcome
          /\ UNCHANGED sawEof
  /\ UNCHANGED <<kind, child, stdinBuf, written, wcur, streamVars, closing>>

\* every envelope that is not a result is taken for a failure
RequestOutcomeResultOnly(l) ==
  LET r == FromStr(Trim(l)) IN
  IF ~r.ok THEN Err(InvalidJson(r.v))
  ELSE IF GetType(r.v) /= Some("result")
       THEN Err(IF IsSome(GetMessage(r.v)) THEN Unwrap(GetMessage(r.v)) ELSE UnknownError)
       ELSE Ok(r.v)

\* backend_request after the await: decode the line, map an error envelope
RequestOutcome(l) ==
  LET r == FromStr(Trim(l)) IN
  IF ~r.ok THEN Err(InvalidJson(r.v))
  ELSE IF GetType(r.v) = Some("error")
       THEN Err(IF IsSome(GetMessage(r.v)) THEN Unwrap(GetMessage(r.v)) ELSE UnknownError)
       ELSE Ok(r.v)

Decode(c) ==
  /\ pc[c] = "decode"
  /\ outcome' = [outcome EXCEPT ![c] = RequestOutcome(line[c])]
  /\ pc' = [pc EXCEPT ![c] = "done"]
  /\ UNCHANGED <<kind, holder, workerVars, line, streamVars, history, sawEof, closing>>

\* ---------------------------------------------------------------- streaming
\* a stop test that stops at every envelope
StopAtAnyEnvelope(l) ==
  LET trimmed == Trim(l) IN
  /\ ~IsEmpty(trimmed)
  /\ FromStr(trimmed).ok

\* a stop test that misses the result envelope
StopAtErrorOnly(l) ==
  LET trimmed == Trim(l) IN
  /\ ~IsEmpty(trimmed)
  /\ LET r == FromStr(trimmed) IN
     IF r.ok THEN GetType(r.v) = Some("error") ELSE FALSE

\* a stop test with unwrap_or(true)
StopAtUndecodable(l) ==
  LET trimmed == Trim(l) IN
  /\ ~IsEmpty(trimmed)
  /\ LET r == FromStr(trimmed) IN
     IF r.ok THEN GetType(r.v) = Some("result") \/ GetType(r.v) = Some("error")
     ELSE TRUE

\* the reader's stop test
Stop(l) ==
  LET trimmed == Trim(l) IN
  /\ ~IsEmpty(trimmed)
  /\ LET r == FromStr(trimmed) IN
     IF r.ok THEN GetType(r.v) = Some("result") \/ GetType(r.v) = Some("error")
     ELSE FALSE

\* backend_query_stream: one read_line of the reader loop
ReadLine(c) ==
  /\ pc[c] = "read"
  /\ kind[c] = "stream"
  /\ CanRead
  /\ IF stdoutBuf = <<>>
     THEN \* zero bytes: break, the closure ends, drop(tx)
          /\ sawEof' = [sawEof EXCEPT ![c] = TRUE]
          /\ pc' = [pc EXCEPT ![c] = "join"]
          /\ Unlock(c)
          /\ UNCHANGED <<stdoutBuf, history, outcome, line>>
     ELSE /\ stdoutBuf' = Tail(stdoutBuf)
          /\ Logged(c, Head(stdoutBuf))
          /\ IF Head(stdoutBuf).form = "badutf8"
             THEN \* read_line fails: `?` ends the closure, `??` the command
                  /\ outcome' = [outcome EXCEPT ![c] = Err(InvalidUtf8)]
                  /\ pc' = [pc EXCEPT ![c] = "done"]
                  /\ Unlock(c)
                  /\ UNCHANGED line
             ELSE /\ line' = [line EXCEPT ![c] = Head(stdoutBuf)]
                  /\ pc' = [pc EXCEPT ![c] = "send"]
                  /\ UNCHANGED <<holder, outcome>>
          /\ UNCHANGED sawEof
  /\ UNCHANGED <<kind, child, stdinBuf, written, wcur, streamVars, closing>>

\* a channel without a capacity
AlwaysRoom(c) == TRUE

\* the channel created by mpsc::channel::<String>(64) has a free slot
HasRoom(c) == Len(chan[c]) < ChannelCapacity

\* tx_block.blocking_send(line): waits for room, fails when the receiver is gone
SendLine(c) ==
  /\ pc[c] = "send"
  /\ IF rpc[c] = "ended"
     THEN /\ outcome' = [outcome EXCEPT ![c] = Err(ChannelClosed)]
          /\ pc' = [pc EXCEPT ![c] = "done"]
          /\ Unlock(c)
          /\ UNCHANGED chan
     ELSE /\ HasRoom(c)
          /\ chan' = [chan EXCEPT ![c] = Append(@, line[c])]
          /\ IF Stop(line[c])
             THEN pc' = [pc EXCEPT ![c] = "join"] /\ Unlock(c)
             ELSE pc' = [pc EXCEPT ![c] = "read"] /\ UNCHANGED holder
          /\ UNCHANGED outcome
  \* the String is moved into the channel
  /\ line' = [line EXCEPT ![c] = EmptyString]
  /\ UNCHANGED <<kind, workerVars, rpc, result_cell, error_cell, emitted,
                 history, sawEof, closing>>

\* tx is kept until the command returns
SendersDroppedAtReturn(c) == pc[c] = "done"

\* every Sender is dropped: tx_block with the closure, tx at drop(tx) or at return
SendersDropped(c) == pc[c] \in {"join", "done"}

\* an emitter that delivers the newest event first
EmitNewestFirst(c, v) == emitted' = [emitted EXCEPT ![c] = <<v>> \o @]

\* app_handle.emit("backend://progress", &v)
Emit(c, v) == emitted' = [emitted EXCEPT ![c] = Append(@, v)]

\* a receiver that stores every terminal envelope in the result cell
StoresAnyTerminal(t) == t = Some("result") \/ t = Some("error")

\* the match arm Some("result")
StoresResult(t) == t = Some("result")

\* a receiver that ends at the first envelope that has a type
ReceiverBreaksOnAnyType(t) == t /= None

\* the match arms that `break`
ReceiverBreaks(t) == t = Some("result") \/ t = Some("error")

\* one iteration of the receiver task's `while let Some(line) = rx.recv().await`
Receive(c) ==
  /\ rpc[c] = "recv"
  /\ IF chan[c] = <<>>
     THEN /\ SendersDropped(c)
          /\ rpc' = [rpc EXCEPT ![c] = "ended"]
          /\ UNCHANGED <<chan, result_cell, error_cell, emitted>>
     ELSE LET trimmed == Trim(Head(chan[c]))
              r == FromStr(trimmed)
              t == IF r.ok THEN GetType(r.v) ELSE None
          IN
          /\ chan' = [chan EXCEPT ![c] = Tail(@)]
          /\ IF ~IsEmpty(trimmed) /\ r.ok /\ t = Some("progress")
             THEN Emit(c, r.v) ELSE UNCHANGED emitted
          /\ IF ~IsEmpty(trimmed) /\ r.ok /\ StoresResult(t)
             THEN result_cell' = [result_cell EXCEPT ![c] = Some(r.v)]
             ELSE UNCHANGED result_cell
          /\ IF ~IsEmpty(trimmed) /\ r.ok /\ t = Some("error")
             THEN error_cell' = [error_cell EXCEPT ![c] = GetMessage(r.v)]
             ELSE UNCHANGED error_cell
          /\ rpc' = [rpc EXCEPT ![c] =
                IF ~IsEmpty(trimmed) /\ r.ok /\ ReceiverBreaks(t)
                THEN "ended" ELSE "recv"]
  /\ UNCHANGED <<pc, kind, holder, workerVars, line, outcome, history, sawEof, closing>>

\* an outcome selection whose fallback is the generic worker error
StreamOutcomeGenericFallback(e, r) ==
  IF IsSome(e) THEN Err(Unwrap(e))
  ELSE IF IsSome(r) THEN Ok(Unwrap(r)) ELSE Err(UnknownError)

\* the command's outcome from the two cells, after the receiver task is joined
StreamOutcome(e, r) ==
  IF IsSome(e) THEN Err(Unwrap(e))
  ELSE IF IsSome(r) THEN Ok(Unwrap(r)) ELSE Err(NoResultMsg)

\* drop(tx); recv_handle.await; take the cells
JoinReceiver(c) ==
  /\ pc[c] = "join"
  /\ rpc[c] = "ended"
  /\ outcome' = [outcome EXCEPT ![c] = StreamOutcome(error_cell[c], result_cell[c])]
  /\ error_cell' = [error_cell EXCEPT ![c] = None]
  /\ result_cell' = [result_cell EXCEPT ![c] = IF IsSome(error_cell[c]) THEN @ ELSE None]
  /\ pc' = [pc EXCEPT ![c] = "done"]
  /\ UNCHANGED <<kind, holder, workerVars, line, chan, rpc, emitted, history, sawEof, closing>>

\* ---------------------------------------------------------------- shutdown
\* WindowEvent::CloseRequested arrives
CloseRequested ==
  /\ closing = "no"
  /\ closing' = "waiting"
  /\ UNCHANGED <<pc, kind, holder, workerVars, line, streamVars, outcome, history, sawEof>>

\* the handler takes the mutex, kills the child and drops the guard
KillChild ==
  /\ closing = "waiting"
  /\ LockFree(Closer)
  /\ child' = "exited"
  /\ closing' = "done"
  /\ UNCHANGED <<pc, kind, holder, stdinBuf, stdoutBuf, written, wcur, line,
                 streamVars, outcome, history, sawEof>>

\* ---------------------------------------------------------------- backend
bridgeVars == <<pc, kind, holder, line, streamVars, outcome, history, sawEof, closing>>

\* the backend writes a line to its stdout
WriteLine(sh, req) ==
  /\ child = "running"
  /\ written < MaxLines
  /\ written' = written + 1
  /\ stdoutBuf' = Append(stdoutBuf, MkLine(sh[1], sh[2], sh[3], written + 1, req))

\* any backend: any line at any time.  The bridge sees the pipe only through
\* read_line, one line at a time, so a backend that runs several lines ahead
\* is to the bridge the same as one that writes the next line once the pipe
\* is empty; the pipe holds one unread line here.
WorkerWrite ==
  /\ stdoutBuf = <<>>
  /\ \E sh \in LineShapes : WriteLine(sh, 0)
  /\ UNCHANGED <<child, stdinBuf, wcur, bridgeVars>>

\* the backend exits by itself, closing its ends of the pipes
WorkerExit ==
  /\ child = "running"
  /\ child' = "exited"
  /\ UNCHANGED <<stdinBuf, stdoutBuf, written, wcur, bridgeVars>>

Bridge ==
  \/ \E c \in Calls : \E k \in {"request", "stream"} : Invoke(c, k)
  \/ \E c \in Calls : Lock(c)
  \/ \E c \in Calls : WriteRequest(c)
  \/ \E c \in Calls : ReadResponse(c)
  \/ \E c \in Calls : Decode(c)
  \/ \E c \in Calls : ReadLine(c)
  \/ \E c \in Calls : SendLine(c)
  \/ \E c \in Calls : Receive(c)
  \/ \E c \in Calls : JoinReceiver(c)
  \/ CloseRequested
  \/ KillChild

Next == Bridge \/ WorkerWrite \/ WorkerExit

Spec == Init /\ [][Next]_vars

TypeOK ==
  /\ holder \in 0..Closer
  /\ \A c \in Calls : Len(chan[c]) <= ChannelCapacity

\* ---------------------------------------------------------------- a backend that follows the wire protocol
\* the backend takes the next request line from its stdin
WorkerTake ==
  /\ child = "running"
  /\ wcur = None
  /\ stdinBuf /= <<>>
  /\ wcur' = Some(Head(stdinBuf))
  /\ stdinBuf' = Tail(stdinBuf)
  /\ UNCHANGED <<child, stdoutBuf, written, bridgeVars>>

\* lines that end the answer to a request
TerminalShapes ==
  { <<"json", Some("result"), None>>,
    <<"json", Some("error"), Some("boom")>>,
    <<"json", Some("error"), None>> }

\* a progress line of the answer to a streaming request
WorkerProgress ==
  /\ wcur /= None
  /\ Unwrap(wcur).stream
  /\ WriteLine(<<"json", Some("progress"), None>>, Unwrap(wcur).id)
  /\ UNCHANGED <<child, stdinBuf, wcur, bridgeVars>>

\* the one line answering a synchronous request, or the terminal line of the
\* answer to a streaming request
WorkerFinish ==
  /\ wcur /= None
  /\ \E sh \in TerminalShapes : WriteLine(sh, Unwrap(wcur).id)
  /\ wcur' = None
  /\ UNCHANGED <<child, stdinBuf, bridgeVars>>

NextProtocol == Bridge \/ WorkerTake \/ WorkerProgress \/ WorkerFinish \/ WorkerExit

SpecProtocol == Init /\ [][NextProtocol]_vars

\* ---------------------------------------------------------------- vocabulary of the properties
IsStream(c) == kind[c] = "stream"
IsRequest(c) == kind[c] = "request"
Returned(c) == pc[c] = "done"

\* the call has written its request and has not finished its last read
InExchange(c) == pc[c] \in {"read", "send"}

IsJson(l) == l.form = "json"
HasType(l, t) == IsJson(l) /\ l.type = <<t>>
IsTerminal(l) == HasType(l, "result") \/ HasType(l, "error")
\* blank, not JSON, or an envelope of another type
IsNoise(l) == l.form \in {"blank", "garbage"} \/ (IsJson(l) /\ ~IsTerminal(l) /\ ~HasType(l, "progress"))

\* the envelope a JSON line carries
EnvelopeOf(l) == [type |-> l.type, message |-> l.message, n |-> l.n, req |-> l.req]

WorkerMessages == {"boom"}
DecodeErrors == {InvalidJson("EOF while parsing a value"), InvalidJson("expected value")}

\* ---------------------------------------------------------------- C1
\* C1: at most one call at a time is between writing its request line and
\* finishing its last read, and that call owns the mutex; so no call writes
\* its request while another exchange is still reading.
MutualExclusion ==
  \A c, d \in Calls :
    InExchange(c) => /\ holder = c
                     /\ (InExchange(d) => c = d)

\* one call is inside its exchange, having read a line, while another waits
\* for the mutex
WitnessMutualExclusion ==
  \E c, d \in Calls : c /= d /\ InExchange(c) /\ pc[d] = "lock" /\ nread[c] > 0

\* ---------------------------------------------------------------- C2
\* C2: against a backend that answers requests in arrival order, every line a
\* call reads, every progress event emitted for it and the envelope it
\* returns were written by the backend for that call's own request.
NoCrossTalk ==
  \A c \in Calls :
    /\ reqsRead[c] \subseteq {c}
    /\ \A i \in 1..Len(emitted[c]) : emitted[c][i].req = c
    /\ (Returned(c) /\ outcome[c].ok) => outcome[c].v.req = c

\* a streaming call and a synchronous call have both completed an exchange
WitnessNoCrossTalk ==
  /\ \A c \in 1..2 : Returned(c) /\ nread[c] > 0
  /\ IsStream(1) /\ IsRequest(2)
  /\ nread[1] >= 2

\* ---------------------------------------------------------------- C3
\* C3: when a streaming call has returned a result or a worker-reported
\* error, the progress events emitted for it are exactly the progress
\* envelopes it read before the first terminal envelope, in the same order.
ProgressComplete ==
  \A c \in Calls :
    (IsStream(c) /\ Returned(c) /\ (outcome[c].ok \/ outcome[c].v \in WorkerMessages))
      => emitted[c] = progRead[c]

\* a streaming call returned a result after two progress events
WitnessProgressComplete ==
  \E c \in Calls : IsStream(c) /\ Returned(c) /\ outcome[c].ok /\ Len(emitted[c]) >= 2

\* ---------------------------------------------------------------- C4
\* C4: once a streaming call has returned, with a result or with any failure,
\* no further progress event of that call is emitted.
NoProgressAfterReturn ==
  [][\A c \in Calls : Returned(c) => emitted'[c] = emitted[c]]_vars

\* ---------------------------------------------------------------- C5
\* C5: a streaming call whose first terminal envelope is an error fails with
\* that envelope's message, or with the generic message when the envelope has
\* none; never with the no-result failure.
WorkerErrorOutcome ==
  \A c \in Calls :
    (IsStream(c) /\ Returned(c) /\ termRead[c] /= None /\ termRead[c][1].type = <<"error">>)
      => outcome[c] = Err(IF termRead[c][1].message = None
                          THEN UnknownError
                          ELSE termRead[c][1].message[1])

NoTerminalOutcome ==
  \A c \in Calls :
    (IsStream(c) /\ Returned(c) /\ sawEof[c] /\ termRead[c] = None)
      => /\ outcome[c] = Err(NoResultMsg)
         /\ emitted[c] = progRead[c]

\* a streaming call read a progress line, then end of stream, and returned
WitnessNoTerminalOutcome ==
  \E c \in Calls : IsStream(c) /\ Returned(c) /\ sawEof[c] /\ Len(emitted[c]) >= 1

RequestErrorMapping ==
  \A c \in Calls :
    (IsRequest(c) /\ Returned(c) /\ IsJson(line[c]))
      => LET l == line[c] IN
         /\ outcome[c].ok <=> ~HasType(l, "error")
         /\ HasType(l, "error") =>
              outcome[c].v = (IF l.message = None THEN UnknownError ELSE l.message[1])
         /\ ~HasType(l, "error") => outcome[c].v = EnvelopeOf(l)

\* one synchronous call failed with the worker's message and another
\* returned an envelope that is not a result
WitnessRequestErrorMapping ==
  \E c, d \in Calls :
    /\ IsRequest(c) /\ Returned(c) /\ outcome[c] = Err("boom")
    /\ IsRequest(d) /\ Returned(d) /\ outcome[d].ok /\ outcome[d].v.type /= Some("result")

\* ---------------------------------------------------------------- C10
\* C10: a backend_request whose read returned zero bytes fails with the
\* stream-closed failure, which is not the decode failure of a non-JSON line.
StreamClosedFailure ==
  \A c \in Calls :
    (IsRequest(c) /\ Returned(c) /\ sawEof[c])
      => (~outcome[c].ok /\ outcome[c].v \notin DecodeErrors)


\* ---------------------------------------------------------------- C11
\* C11: when the CloseRequested handler runs while a synchronous call is
\* blocked in read_line on a silent backend, the handler can kill the child
\* (which ends the read); the handler and the call never wait for each other.
ShutdownUnblocksRead ==
  \A c \in Calls :
    (closing = "waiting" /\ IsRequest(c) /\ pc[c] = "read" /\ holder = c /\ ~CanRead)
      => ENABLED KillChild

\* ---------------------------------------------------------------- C12
\* C12: the CloseRequested handler never has to wait for the mutex: whenever
\* it has been invoked and has not yet killed the child, it can kill it,
\* whoever holds the mutex.
KillNeverWaitsForLock ==
  (closing = "waiting") => ENABLED KillChild

\* ---------------------------------------------------------------- C13
\* C13: a command that has returned, with success or with any failure, does
\* not hold the mutex.
LockReleasedOnReturn ==
  \A c \in Calls : Returned(c) => holder /= c

\* a call has returned a failure and another call has then taken the mutex
WitnessLockReleasedOnReturn ==
  \E c, d \in Calls : Returned(c) /\ ~outcome[c].ok /\ holder = d

\* ---------------------------------------------------------------- C14
\* C14: the child is never started again: once exited it stays exited, and a
\* call that comes to write its request after the child has exited fails
\* there, without having exchanged anything.
NeverRestarted ==
  [][/\ (child = "exited" => child' = "exited")
     /\ \A c \in Calls :
          (child = "exited" /\ pc[c] = "write" /\ pc'[c] /= "write")
            => (pc'[c] = "done" /\ ~outcome'[c].ok /\ nread'[c] = 0)]_vars

\* the handler killed the child and a call made afterwards failed on its write
WitnessNeverRestarted ==
  \E c \in Calls : closing = "done" /\ Returned(c) /\ outcome[c] = Err(BrokenPipe)


\* ---------------------------------------------------------------- C15
\* C15: a streaming call that has written its request gives up the mutex only
\* when its reader has read a terminal envelope or end of stream.
DrainBeforeRelease ==
  [][\A c \in Calls :
       (IsStream(c) /\ pc[c] \in {"read", "send"} /\ holder = c /\ holder' /= c)
         => (termRead'[c] /= None \/ sawEof'[c])]_vars

\* ---------------------------------------------------------------- C16
\* C16 as stated: the channel never holds more than its capacity, the reader
\* reads no line while the channel is full, and only the receiver emits.
NoReadWhileFull ==
  [][\A c \in Calls :
       /\ Len(chan'[c]) <= ChannelCapacity
       /\ (Len(chan[c]) = ChannelCapacity => nread'[c] = nread[c])
       /\ (emitted'[c] /= emitted[c] => (chan'[c] = Tail(chan[c]) /\ pc'[c] = pc[c]))]_vars

\* C16 as amended: the channel never holds more than its capacity; a reader
\* whose handoff finds the channel full stays suspended, holding the one line
\* it has read and reading no other, until the receiver removes a line; only
\* the receiver emits.
BoundedHandoff ==
  [][\A c \in Calls :
       /\ Len(chan'[c]) <= ChannelCapacity
       /\ (pc[c] = "send" /\ Len(chan[c]) = ChannelCapacity)
            => (pc'[c] = "send" /\ nread'[c] = nread[c] /\ line'[c] = line[c])
       /\ (emitted'[c] /= emitted[c] => (chan'[c] = Tail(chan[c]) /\ pc'[c] = pc[c]))]_vars

\* the reader is suspended in blocking_send on a full channel
WitnessBoundedHandoff ==
  \E c \in Calls : pc[c] = "send" /\ Len(chan[c]) = ChannelCapacity /\ rpc[c] = "recv"

\* ---------------------------------------------------------------- C17
\* C17: the result cell and the error cell of a call are never both
\* populated, and a populated cell changes only by being taken at return.
CellsExclusive ==
  [][\A c \in Calls :
       /\ ~(IsSome(result_cell'[c]) /\ IsSome(error_cell'[c]))
       /\ (IsSome(result_cell[c]) => result_cell'[c] \in {result_cell[c], None})
       /\ (IsSome(error_cell[c]) => error_cell'[c] \in {error_cell[c], None})]_vars

\* the receiver has stored the error message and the command has not yet
\* taken it
WitnessCellsExclusive ==
  \E c \in Calls : IsSome(error_cell[c]) /\ result_cell[c] = None /\ pc[c] = "join"

\* ---------------------------------------------------------------- C18
\* C18: once the reader of a streaming call has read a terminal envelope,
\* that call reads no further line.
StopAtFirstTerminal ==
  [][\A c \in Calls :
       (IsStream(c) /\ termRead[c] /= None) => nread'[c] = nread[c]]_vars

\* a streaming call has returned after its terminal envelope and a line the
\* backend wrote afterwards is still in the pipe
WitnessStopAtFirstTerminal ==
  \E c \in Calls :
    /\ IsStream(c) /\ Returned(c) /\ termRead[c] /= None
    /\ stdoutBuf /= <<>> /\ Head(stdoutBuf).n > termRead[c][1].n

\* ---------------------------------------------------------------- C19
\* C19: the receiver task of a streaming call ends only after the reader has
\* finished and with the channel empty; the reader's send never fails; and a
\* call whose reader finished normally returns with the receiver ended and
\* nothing left in the channel.
ReaderReceiverAgree ==
  \A c \in Calls :
    /\ rpc[c] = "ended" => (pc[c] \in {"join", "done"} /\ chan[c] = <<>>)
    /\ Returned(c) => outcome[c] /= Err(ChannelClosed)
    /\ (IsStream(c) /\ Returned(c) /\ (termRead[c] /= None \/ sawEof[c]))
         => (rpc[c] = "ended" /\ chan[c] = <<>>)

\* a streaming call has returned after two lines and a terminal envelope, the
\* receiver having ended on it
WitnessReaderReceiverAgree ==
  \E c \in Calls :
    /\ IsStream(c) /\ Returned(c) /\ rpc[c] = "ended"
    /\ termRead[c] /= None /\ nread[c] >= 3


\* ---------------------------------------------------------------- C20
\* the blocking reader thread, the receiver task and the command's future
\* are scheduled, and the backend eventually closes its output if it has not
\* finished its answer before
Fairness ==
  /\ \A c \in Calls : /\ WF_vars(WriteRequest(c))
                      /\ WF_vars(ReadLine(c))
                      /\ WF_vars(SendLine(c))
                      /\ WF_vars(Receive(c))
                      /\ WF_vars(JoinReceiver(c))
  /\ WF_vars(WorkerExit)

SpecLive == Init /\ [][NextProtocol]_vars /\ Fairness

====
